---- MODULE Spec2Model ----
(***************************************************************************)
(* Model of RushHourSolver.cpp: a breadth-first solver for the puzzle      *)
(* "Rush Hour".  The state is the list of discovered boards (state_list),  *)
(* the lookup set (states_in_list), the loop counters of main and the      *)
(* working board that CheckMove mutates and restores.                      *)
(***************************************************************************)
EXTENDS Integers, Sequences, FiniteSets, TLC

\* Program constants.
BOARD_SIZE == 6
BOARD_EXIT_Y == 2

\* Bounds of the model: how many of the palette's cars are put on an initial
\* board beside the goal car, in the search (MaxCars) and in the check of
\* termination (MaxLiveCars).
MaxCars == 2
MaxLiveCars == 1

Coord == 0 .. (BOARD_SIZE - 1)
Space == " "
Goal == "X"

(***************************************************************************)
(* Board: char cell[BOARD_SIZE][BOARD_SIZE], indexed [y][x].               *)
(***************************************************************************)
InBounds(y, x) == x >= 0 /\ x < BOARD_SIZE /\ y >= 0 /\ y < BOARD_SIZE

\* Board::Cell.  The assertion of line 48 fails outside the board: the
\* callers record such an access (see CheckMove's acc) and main aborts.
Cell(b, y, x) == IF InBounds(y, x) THEN b[y][x] ELSE "?"

\* Board::SetCell.  The same assertion, line 64.
SetCell(b, y, x, c) == IF InBounds(y, x) THEN [b EXCEPT ![y][x] = c] ELSE b

(***************************************************************************)
(* CheckAddState: insertion in the lookup set and, when the board is new,  *)
(* append to the list.  The value is the pair of containers after the      *)
(* call, with the outcome of the size assertion of line 210.               *)
(***************************************************************************)
SetInsert(set, state) == set \cup {state}

\* ListAppend that does not record where the board came from.
ListAppendNoFrom(list, state, from) == Append(list, [first |-> state, second |-> -1])

ListAppend(list, state, from) == Append(list, [first |-> state, second |-> from])

\* CheckAddState with the outcome of the insertion ignored: the board is
\* appended whether or not the set held it.
CheckAddStateAlways(list, set, state, from) ==
    LET l2 == ListAppend(list, state, from)
        s2 == SetInsert(set, state)
    IN  [list |-> l2, set |-> s2, added |-> TRUE, sane |-> (Len(l2) = Cardinality(s2))]

\* CheckAddState with the test of line 184 inverted.
CheckAddStateInverted(list, set, state, from) ==
    IF state \notin set
    THEN [list |-> list, set |-> SetInsert(set, state), added |-> FALSE, sane |-> TRUE]
    ELSE LET l2 == ListAppend(list, state, from)
         IN  [list |-> l2, set |-> set, added |-> TRUE,
              sane |-> (Len(l2) = Cardinality(set))]

\* CheckAddState that, for a board the set holds, writes the new origin
\* into the entry of that board.
CheckAddStateReorigin(list, set, state, from) ==
    IF state \in set
    THEN [list |-> [i \in 1 .. Len(list) |->
                       IF list[i].first = state
                       THEN [first |-> state, second |-> from] ELSE list[i]],
          set |-> set, added |-> FALSE, sane |-> TRUE]
    ELSE LET l2 == ListAppend(list, state, from)
             s2 == SetInsert(set, state)
         IN  [list |-> l2, set |-> s2, added |-> TRUE,
              sane |-> (Len(l2) = Cardinality(s2))]

CheckAddState(list, set, state, from) ==
    IF state \in set
    THEN [list |-> list, set |-> set, added |-> FALSE, sane |-> TRUE]
    ELSE LET l2 == ListAppend(list, state, from)
             s2 == SetInsert(set, state)
         IN  [list |-> l2, set |-> s2, added |-> TRUE,
              sane |-> (Len(l2) = Cardinality(s2))]

(***************************************************************************)
(* CheckMove<dx,dy>( s, x, y, idx_state ).                                 *)
(***************************************************************************)
\* txty_on_board with the upper limits one too large.
txty_on_boardLoose(dx, dy, tx, ty) ==
    /\ (dx >= 0 \/ tx >= 0)
    /\ (dx <= 0 \/ tx <= BOARD_SIZE)
    /\ (dy >= 0 \/ ty >= 0)
    /\ (dy <= 0 \/ ty <= BOARD_SIZE)

\* The macro txty_on_board: only the check that the direction needs.
txty_on_board(dx, dy, tx, ty) ==
    /\ (dx >= 0 \/ tx >= 0)
    /\ (dx <= 0 \/ tx < BOARD_SIZE)
    /\ (dy >= 0 \/ ty >= 0)
    /\ (dy <= 0 \/ ty < BOARD_SIZE)

\* WalkSteps with the body of the do-while run once only.
WalkStepsOnce(b, dx, dy, tx, ty, car) == 1

\* The do-while of lines 267-270, entered with (tx,ty) on the car: the
\* number of times its body runs, until the cell is off the board or is
\* not the car's.
RECURSIVE WalkSteps(_, _, _, _, _, _)
WalkSteps(b, dx, dy, tx, ty, car) ==
    IF txty_on_board(dx, dy, tx + dx, ty + dy) /\ Cell(b, ty + dy, tx + dx) = car
    THEN 1 + WalkSteps(b, dx, dy, tx + dx, ty + dy, car)
    ELSE 1

\* MoveCar without the write of line 278: the far end keeps the car.
MoveCarKeepEnd(b, y, x, ty, tx, car) == SetCell(b, y, x, car)

\* Lines 277-278: the car moves one cell into the empty cell (y, x); its
\* far end (ty, tx) becomes empty.
MoveCar(b, y, x, ty, tx, car) == SetCell(SetCell(b, y, x, car), ty, tx, Space)

\* UndoMove without the writes of lines 322-323: the move stays.
UndoMoveNothing(b, y, x, ty, tx, car) == b

\* Lines 322-323: the move undone.
UndoMove(b, y, x, ty, tx, car) == SetCell(SetCell(b, y, x, Space), ty, tx, car)

\* Line 282: the move ended next to the exit ramp.
AtExit(dx, x, y) == dx = -1 /\ x = BOARD_SIZE - 1 /\ y = BOARD_EXIT_Y

\* The loops of lines 302-303 and 309-310: the cells xx .. x of row y set
\* to c.
\* FillRow with the loop left after its first round: one cell is set.
FillRowOnce(b, y, xx, x, c) ==
    IF xx > x THEN b ELSE SetCell(b, y, xx, c)

RECURSIVE FillRow(_, _, _, _, _)
FillRow(b, y, xx, x, c) ==
    IF xx > x THEN b ELSE FillRow(SetCell(b, y, xx, c), y, xx + 1, x, c)

\* EraseCar with the loop of lines 302-303 left out: the car stays.
EraseCarNothing(b, y, tx, x) == b

\* Lines 302-303: the car erased from the board.
EraseCar(b, y, tx, x) == FillRow(b, y, tx + 1, x, Space)

\* Lines 309-310: the car put back.
RestoreCar(b, y, tx, x, car) == FillRow(b, y, tx + 1, x, car)

NoMove(s, acc) == [s |-> s, calls |-> << >>, quit |-> FALSE, acc |-> acc]

\* The value: the working board when the call returns, the boards passed to
\* CheckAddState (in order), whether PrintSolutionAndQuit was reached, and
\* the cells that Cell and SetCell were called with.
CheckMove(dx, dy, s, x, y) ==
    LET tx0 == x + dx * 2
        ty0 == y + dy * 2
    IN  IF ~txty_on_board(dx, dy, tx0, ty0) THEN NoMove(s, {})
        ELSE
        LET car == Cell(s, ty0, tx0)
            probe == {<<ty0, tx0>>, <<ty0 - dy, tx0 - dx>>}
        IN  IF Cell(s, ty0 - dy, tx0 - dx) # car \/ car = Space THEN NoMove(s, probe)
            ELSE
            LET n  == WalkSteps(s, dx, dy, tx0, ty0, car)
                tx == tx0 + dx * n - dx
                ty == ty0 + dy * n - dy
                walk == {<<ty0 + dy * k, tx0 + dx * k>> : k \in
                            {j \in 1 .. n : txty_on_board(dx, dy, tx0 + dx * j, ty0 + dy * j)}}
                moved == MoveCar(s, y, x, ty, tx, car)
                acc == probe \cup walk \cup {<<y, x>>, <<ty, tx>>}
            IN  IF AtExit(dx, x, y)
                THEN IF car = Goal
                     THEN [s |-> moved, calls |-> <<moved>>, quit |-> TRUE, acc |-> acc]
                     ELSE LET erased   == EraseCar(moved, y, tx, x)
                              restored == RestoreCar(erased, y, tx, x, car)
                          IN  [s |-> UndoMove(restored, y, x, ty, tx, car),
                               calls |-> <<erased>>, quit |-> FALSE,
                               acc |-> acc \cup {<<y, xx>> : xx \in (tx + 1) .. x}]
                ELSE [s |-> UndoMove(moved, y, x, ty, tx, car),
                      calls |-> <<moved>>, quit |-> FALSE, acc |-> acc]

(***************************************************************************)
(* PrintSolutionRecursive( i, next ): the numbered steps printed, in the   *)
(* order of printing; each is the step number, the board and the board it  *)
(* is drawn against (None for nullptr).                                    *)
(***************************************************************************)
\* The null pointer where a board may be passed.
None == << >>

\* PrintSolutionRecursive with the recursion ended at the root, i <= 0.
RECURSIVE PrintSolutionSkipRoot(_, _, _)
PrintSolutionSkipRoot(list, i, next) ==
    IF i <= 0 THEN << >>
    ELSE LET cur == list[i + 1].first
             before == PrintSolutionSkipRoot(list, list[i + 1].second, cur)
         IN  Append(before, [step |-> Len(before) + 1, cur |-> cur, next |-> next])

RECURSIVE PrintSolutionRecursive(_, _, _)
PrintSolutionRecursive(list, i, next) ==
    IF i < 0 THEN << >>
    ELSE LET cur == list[i + 1].first
             before == PrintSolutionRecursive(list, list[i + 1].second, cur)
         IN  Append(before, [step |-> Len(before) + 1, cur |-> cur, next |-> next])

\* PrintSolutionAndQuit: the solution is assumed to be the last state.
PrintSolutionAndQuit(list) == PrintSolutionRecursive(list, Len(list) - 1, None)

(***************************************************************************)
(* Initial boards: the goal car in the exit row and up to MaxCars cars of  *)
(* a palette, none overlapping.                                            *)
(***************************************************************************)
Car(id, y, x, len, horiz) == [id |-> id, y |-> y, x |-> x, len |-> len, horiz |-> horiz]

CarCells(c) ==
    IF c.horiz THEN {<<c.y, c.x + i>> : i \in 0 .. (c.len - 1)}
    ELSE {<<c.y + i, c.x>> : i \in 0 .. (c.len - 1)}

Palette ==
    { Car("A", 1, 5, 2, FALSE),
      Car("B", 0, 5, 3, FALSE),
      Car("C", 2, 2, 2, FALSE),
      Car("E", 3, 4, 2, TRUE),
      Car("L", BOARD_EXIT_Y, 0, 2, TRUE),
      Car("H", BOARD_EXIT_Y, 2, 2, TRUE),
      Car("K", BOARD_EXIT_Y, 4, 2, TRUE),
      Car("T", 0, 3, 4, FALSE) }

GoalCars == { Car(Goal, BOARD_EXIT_Y, gx, 2, TRUE) : gx \in 0 .. (BOARD_SIZE - 2) }

Disjoint(cars) ==
    \A c1, c2 \in cars : c1 # c2 => CarCells(c1) \cap CarCells(c2) = {}

OnGrid(c) == \A p \in CarCells(c) : InBounds(p[1], p[2])

BoardOf(cars) ==
    [y \in Coord |-> [x \in Coord |->
        IF \E c \in cars : <<y, x>> \in CarCells(c)
        THEN (CHOOSE c \in cars : <<y, x>> \in CarCells(c)).id
        ELSE Space]]

Layouts(palette, n) ==
    { S \cup {g} : S \in {P \in SUBSET palette : Cardinality(P) <= n}, g \in GoalCars }

BoardsOf(palette, n) ==
    { BoardOf(L) : L \in {K \in Layouts(palette, n) : Disjoint(K) /\ \A c \in K : OnGrid(c)} }

InitialBoards == BoardsOf(Palette, MaxCars)

\* The boards of the check of termination: a part of the palette.
LivePalette == {c \in Palette : c.id \in {"K", "T"}}

LiveBoards == BoardsOf(LivePalette, MaxLiveCars)

(***************************************************************************)
(* State.                                                                  *)
(***************************************************************************)
VARIABLES
    pc,              \* where main is
    initial_board,   \* main's initial_board
    state_list,      \* std::vector< std::pair<Board,int> >
    states_in_list,  \* std::set<Board>
    idx_state,       \* the loop index of line 397
    s,               \* the working copy of line 401
    y, x,            \* the scan loops of lines 416, 418
    dir,             \* which of the four CheckMove calls comes next (1..4)
    last,            \* the CheckAddState call of the last CheckMove (or of the
                     \* preparation): its board, its from, whether it added
    printed,         \* the steps PrintSolutionRecursive printed
    status           \* the process status: -1 while running

vars == <<pc, initial_board, state_list, states_in_list, idx_state, s, y, x, dir,
          last, printed, status>>

NoCall == [board |-> None, from |-> -2, added |-> FALSE]

InitFrom(boards) ==
    /\ initial_board \in boards
    /\ pc = "prepare"
    /\ state_list = << >>
    /\ states_in_list = {}
    /\ idx_state = 0
    /\ s = initial_board
    /\ y = 0
    /\ x = 0
    /\ dir = 1
    /\ last = NoCall
    /\ printed = << >>
    /\ status = -1

Init == InitFrom(InitialBoards)

\* Lines 385-387: the initial board is the first state.
Prepare ==
    /\ pc = "prepare"
    /\ LET r == CheckAddState(state_list, states_in_list, initial_board, -1)
       IN  /\ state_list' = r.list
           /\ states_in_list' = r.set
           /\ last' = [board |-> initial_board, from |-> -1, added |-> r.added]
           /\ pc' = IF r.sane /\ Len(r.list) = 1 THEN "loop" ELSE "abort"
    /\ UNCHANGED <<initial_board, idx_state, s, y, x, dir, printed, status>>

\* Lines 397-401: the loop test and the copy of the next state.
GrabNext ==
    /\ pc = "loop"
    /\ idx_state < Len(state_list)
    /\ s' = state_list[idx_state + 1].first
    /\ y' = 0
    /\ x' = 0
    /\ pc' = "cell"
    /\ UNCHANGED <<initial_board, state_list, states_in_list, idx_state, dir, last,
                   printed, status>>

\* The position of the first empty cell at or after (y0, x0) in the scan of
\* lines 416-423, BOARD_SIZE * BOARD_SIZE when there is none.
RECURSIVE NextEmpty(_, _)
NextEmpty(b, p) ==
    IF p >= BOARD_SIZE * BOARD_SIZE THEN p
    ELSE IF Cell(b, p \div BOARD_SIZE, p % BOARD_SIZE) = Space THEN p
    ELSE NextEmpty(b, p + 1)

\* ScanCell with the cursor advanced by two at the end of the scan.
ScanCellSkipping ==
    /\ pc = "cell"
    /\ LET p == NextEmpty(s, y * BOARD_SIZE + x)
       IN  IF p < BOARD_SIZE * BOARD_SIZE
           THEN /\ y' = p \div BOARD_SIZE
                /\ x' = p % BOARD_SIZE
                /\ dir' = 1
                /\ pc' = "move"
                /\ UNCHANGED idx_state
           ELSE /\ y' = BOARD_SIZE
                /\ x' = 0
                /\ idx_state' = idx_state + 2
                /\ pc' = "loop"
                /\ UNCHANGED dir
    /\ UNCHANGED <<initial_board, state_list, states_in_list, s, last, printed, status>>

\* Lines 416-423 and the ++idx_state of line 397: skip the occupied cells.
ScanCell ==
    /\ pc = "cell"
    /\ LET p == NextEmpty(s, y * BOARD_SIZE + x)
       IN  IF p < BOARD_SIZE * BOARD_SIZE
           THEN /\ y' = p \div BOARD_SIZE
                /\ x' = p % BOARD_SIZE
                /\ dir' = 1
                /\ pc' = "move"
                /\ UNCHANGED idx_state
           ELSE /\ y' = BOARD_SIZE
                /\ x' = 0
                /\ idx_state' = idx_state + 1
                /\ pc' = "loop"
                /\ UNCHANGED dir
    /\ UNCHANGED <<initial_board, state_list, states_in_list, s, last, printed, status>>

\* Direction with the first two calls of lines 427-428 exchanged.
DirectionSwapped(d) ==
    CASE d = 1 -> <<-1, 0>>
      [] d = 2 -> <<1, 0>>
      [] d = 3 -> <<0, 1>>
      [] d = 4 -> <<0, -1>>

\* Lines 427-430: the scan directions of the four calls, in order.  The
\* car found moves the other way, into the empty cell.
Direction(d) ==
    CASE d = 1 -> <<1, 0>>
      [] d = 2 -> <<-1, 0>>
      [] d = 3 -> <<0, 1>>
      [] d = 4 -> <<0, -1>>

\* One call of CheckMove<dx,dy> at the empty cell (y, x), with the
\* CheckAddState and PrintSolutionAndQuit calls it makes.
DoCheckMove(d) ==
    /\ pc = "move"
    /\ dir = d
    /\ LET m == CheckMove(Direction(d)[1], Direction(d)[2], s, x, y)
           r == IF Len(m.calls) = 0
                THEN [list |-> state_list, set |-> states_in_list, added |-> FALSE,
                      sane |-> TRUE]
                ELSE CheckAddState(state_list, states_in_list, m.calls[1], idx_state)
       IN  /\ state_list' = r.list
           /\ states_in_list' = r.set
           /\ s' = m.s
           /\ last' = IF Len(m.calls) = 0 THEN NoCall
                      ELSE [board |-> m.calls[1], from |-> idx_state, added |-> r.added]
           /\ IF ~r.sane \/ \E q \in m.acc : ~InBounds(q[1], q[2])
              THEN /\ pc' = "abort"
                   /\ UNCHANGED <<y, x, dir, printed, status>>
              ELSE IF m.quit
              THEN /\ pc' = "solved"
                   /\ printed' = PrintSolutionAndQuit(r.list)
                   /\ status' = 0
                   /\ UNCHANGED <<y, x, dir>>
              ELSE IF d < 4
              THEN /\ dir' = d + 1
                   /\ UNCHANGED <<pc, y, x, printed, status>>
              ELSE /\ pc' = "cell"
                   /\ y' = IF x = BOARD_SIZE - 1 THEN y + 1 ELSE y
                   /\ x' = IF x = BOARD_SIZE - 1 THEN 0 ELSE x + 1
                   /\ UNCHANGED <<dir, printed, status>>
    /\ UNCHANGED <<initial_board, idx_state>>

CheckMoveRight == DoCheckMove(1)
CheckMoveLeft == DoCheckMove(2)
CheckMoveDown == DoCheckMove(3)
CheckMoveUp == DoCheckMove(4)

\* Lines 435-439: the list is exhausted.
Exhaust ==
    /\ pc = "loop"
    /\ idx_state >= Len(state_list)
    /\ pc' = "exhausted"
    /\ status' = 1
    /\ UNCHANGED <<initial_board, state_list, states_in_list, idx_state, s, y, x, dir,
                   last, printed>>

Next ==
    \/ Prepare
    \/ GrabNext
    \/ ScanCell
    \/ CheckMoveRight
    \/ CheckMoveLeft
    \/ CheckMoveDown
    \/ CheckMoveUp
    \/ Exhaust

Spec == Init /\ [][Next]_vars

\* main runs to its end: no step of it waits for anything.
FairSpec == InitFrom(LiveBoards) /\ [][Next]_vars /\ WF_vars(Next)

(***************************************************************************)
(* The rules of the puzzle, stated per car and not per empty cell: the     *)
(* reference the solver is compared with.                                  *)
(***************************************************************************)
Cells == Coord \X Coord

CarIds(b) == {b[p[1]][p[2]] : p \in Cells} \ {Space}

CellsOf(b, c) == {p \in Cells : b[p[1]][p[2]] = c}

IsRun(ps) ==
    /\ ps # {}
    /\ \/ /\ \A p, q \in ps : p[1] = q[1]
          /\ \A p, q \in ps : \A k \in Coord :
                 (p[2] < k /\ k < q[2]) => <<p[1], k>> \in ps
       \/ /\ \A p, q \in ps : p[2] = q[2]
          /\ \A p, q \in ps : \A k \in Coord :
                 (p[1] < k /\ k < q[1]) => <<k, p[2]>> \in ps

Horizontal(b, c) == \A p, q \in CellsOf(b, c) : p[1] = q[1]
Vertical(b, c) == \A p, q \in CellsOf(b, c) : p[2] = q[2]

\* Every car identifier is one straight contiguous run of cells.
WellFormed(b) == \A c \in CarIds(b) : IsRun(CellsOf(b, c))

\* Car c moved by (ey, ex), when every cell it enters is on the board and
\* empty.
CanShift(b, c, ey, ex) ==
    /\ Cardinality(CellsOf(b, c)) >= 2
    /\ IF ex # 0 THEN Horizontal(b, c) ELSE Vertical(b, c)
    /\ \A p \in CellsOf(b, c) :
          /\ InBounds(p[1] + ey, p[2] + ex)
          /\ b[p[1] + ey][p[2] + ex] \in {Space, c}

Shifted(b, c, ey, ex) ==
    [yy \in Coord |-> [xx \in Coord |->
        IF <<yy - ey, xx - ex>> \in CellsOf(b, c) THEN c
        ELSE IF b[yy][xx] = c THEN Space
        ELSE b[yy][xx]]]

Steps4 == {<<0, 1>>, <<0, -1>>, <<1, 0>>, <<-1, 0>>}

Slides(b) ==
    {Shifted(b, c, e[1], e[2]) :
        <<c, e>> \in {ce \in CarIds(b) \X Steps4 : CanShift(b, ce[1], ce[2][1], ce[2][2])}}

\* A car other than the goal car, lying in the exit row with the last
\* column empty right of it, may leave the board.
CanExit(b, c) ==
    /\ c # Goal
    /\ Cardinality(CellsOf(b, c)) >= 2
    /\ \A p \in CellsOf(b, c) : p[1] = BOARD_EXIT_Y
    /\ <<BOARD_EXIT_Y, BOARD_SIZE - 2>> \in CellsOf(b, c)
    /\ b[BOARD_EXIT_Y][BOARD_SIZE - 1] = Space

Vacated(b, c) ==
    [yy \in Coord |-> [xx \in Coord |-> IF b[yy][xx] = c THEN Space ELSE b[yy][xx]]]

Exits(b) == {Vacated(b, c) : c \in {d \in CarIds(b) : CanExit(b, d)}}

LegalMoves(b) == Slides(b) \cup Exits(b)

\* The goal car is in the last column of the exit row.
Winning(b) == b[BOARD_EXIT_Y][BOARD_SIZE - 1] = Goal

\* The least number of legal moves from a board of front to a winning
\* board, -1 when there is none; seen holds the boards at distance <= d.
RECURSIVE LeastMovesFrom(_, _, _)
LeastMovesFrom(seen, front, d) ==
    IF \E b \in front : Winning(b) THEN d
    ELSE LET nxt == (UNION {LegalMoves(b) : b \in front}) \ seen
         IN  IF nxt = {} THEN -1 ELSE LeastMovesFrom(seen \cup nxt, nxt, d + 1)

LeastMoves(root) == LeastMovesFrom({root}, {root}, 0)

\* The number of moves on the parent chain of entry i (0-based).
RECURSIVE ChainMoves(_, _)
ChainMoves(list, i) ==
    IF list[i + 1].second < 0 THEN 0 ELSE 1 + ChainMoves(list, list[i + 1].second)

Terminated == pc \in {"solved", "exhausted"}

AlreadyWon == Winning(initial_board)

(***************************************************************************)
(* C1. Optimality: when the solver stops on a solution, the number of      *)
(* moves on the parent chain of the entry it stops on (the last one) is    *)
(* the least number of legal moves that bring the goal car into the last   *)
(* column of the exit row.                                                 *)
(***************************************************************************)
C1_Optimality ==
    pc = "solved" =>
        /\ Winning(state_list[Len(state_list)].first)
        /\ ChainMoves(state_list, Len(state_list) - 1) = LeastMoves(initial_board)

\* The same, set aside the initial boards whose goal car is already in the
\* last column of the exit row.
C1_OptimalityUnlessAlreadyWon == AlreadyWon \/ C1_Optimality

(***************************************************************************)
(* C2. Completeness of the outcome: the solver ends Exhausted (status 1,   *)
(* nothing printed) exactly when no winning board is reachable by legal    *)
(* moves, and Solved with status 0 otherwise; at Exhausted the cursor is   *)
(* the length of the list and every legal successor of every entry is in   *)
(* the lookup set.                                                         *)
(***************************************************************************)
C2_Outcome ==
    Terminated =>
        /\ (pc = "exhausted") <=> (LeastMoves(initial_board) = -1)
        /\ pc = "solved" => status = 0
        /\ pc = "exhausted" =>
              /\ status = 1
              /\ printed = << >>
              /\ idx_state = Len(state_list)
              /\ \A i \in 1 .. Len(state_list) :
                    LegalMoves(state_list[i].first) \subseteq states_in_list

(***************************************************************************)
(* C3. Termination: main ends, Solved or Exhausted; the cursor never       *)
(* passes the length of the list; and every board appended to the list is  *)
(* one that the lookup set did not hold.                                   *)
(***************************************************************************)
C3_Termination ==
    /\ <>Terminated
    /\ [](idx_state <= Len(state_list) /\ pc # "abort")
    /\ [][Len(state_list') # Len(state_list) =>
            /\ Len(state_list') = Len(state_list) + 1
            /\ state_list'[Len(state_list')].first \notin states_in_list
            /\ WellFormed(state_list'[Len(state_list')].first)]_vars

\* The search ended Exhausted after it had explored several boards.
C3_Witness == pc = "exhausted" /\ idx_state >= 6 /\ Len(state_list) = idx_state

(***************************************************************************)
(* C4. No duplicate exploration: after every call of CheckAddState the     *)
(* lookup set and the list hold the same boards, the set is as large as    *)
(* the list is long, no two entries of the list hold equal boards, and no  *)
(* entry and no member is ever removed or changed.                         *)
(***************************************************************************)
ListBoards(list) == {list[i].first : i \in 1 .. Len(list)}

\* C4: the set and the list hold the same boards, without duplicates, and
\* both only grow.
C4_NoDuplicates ==
    /\ [](/\ states_in_list = ListBoards(state_list)
          /\ Cardinality(states_in_list) = Len(state_list)
          /\ pc # "abort")
    /\ [][/\ Len(state_list') >= Len(state_list)
          /\ SubSeq(state_list', 1, Len(state_list)) = state_list
          /\ states_in_list \subseteq states_in_list']_vars

\* A call of CheckAddState just rejected a board, with several boards in
\* the list.
C4_Witness == last.from >= 0 /\ ~last.added /\ Len(state_list) >= 4

(***************************************************************************)
(* C5. Invariant preservation.  Every entry of the list is the last entry  *)
(* in the state that follows the call that added it, so a property of the  *)
(* last entry in every such state is a property of every registered board. *)
(***************************************************************************)
\* The line a car lies on: its orientation with its row or its column.
LineOf(b, c) ==
    IF Horizontal(b, c) THEN <<"row", (CHOOSE p \in CellsOf(b, c) : TRUE)[1]>>
    ELSE <<"column", (CHOOSE p \in CellsOf(b, c) : TRUE)[2]>>

\* Car c is the same car in the child as in the parent.
SameCar(parent, child, c) ==
    /\ Cardinality(CellsOf(child, c)) = Cardinality(CellsOf(parent, c))
    /\ IsRun(CellsOf(child, c))
    /\ LineOf(child, c) = LineOf(parent, c)

LastEntry == state_list[Len(state_list)]

ParentOfLast == state_list[LastEntry.second + 1].first

\* C5 as stated: every registered board is well formed and every car of
\* the parent is in the child with the same length, orientation and line.
C5_EveryCarKept ==
    last.added =>
        /\ WellFormed(LastEntry.first)
        /\ LastEntry.second >= 0 =>
              /\ CarIds(LastEntry.first) = CarIds(ParentOfLast)
              /\ \A c \in CarIds(ParentOfLast) : SameCar(ParentOfLast, LastEntry.first, c)

\* C5 amended: every registered board is well formed, no move brings a new
\* identifier, and every car of the parent is in the child with the same
\* length, orientation and line, except that one car other than the goal
\* car, which lay in the exit row left of the empty last column, may be
\* gone from the child altogether.
C5_CarsKeptOrGone ==
    last.added =>
        /\ WellFormed(LastEntry.first)
        /\ LastEntry.second >= 0 =>
              LET gone == CarIds(ParentOfLast) \ CarIds(LastEntry.first)
              IN  /\ CarIds(LastEntry.first) \subseteq CarIds(ParentOfLast)
                  /\ Cardinality(gone) <= 1
                  /\ \A c \in gone : CanExit(ParentOfLast, c)
                  /\ \A c \in CarIds(LastEntry.first) :
                        SameCar(ParentOfLast, LastEntry.first, c)

\* A board was just registered from which a car has left, with the goal
\* car and another car still on it.
C5_Witness ==
    /\ last.added
    /\ LastEntry.second >= 0
    /\ CarIds(LastEntry.first) # CarIds(ParentOfLast)
    /\ Cardinality(CarIds(LastEntry.first)) >= 2

(***************************************************************************)
(* C6. Full exit of a car other than the goal car.  When the explored      *)
(* board has such a car in the exit row with the last column empty right   *)
(* of it, the call of CheckMove<-1,0> at the last cell of the exit row     *)
(* passes the board without that car to CheckAddState with the explored    *)
(* entry as origin, so that board is in the set once the entry is          *)
(* explored; and from an initial board whose goal car lies behind such a   *)
(* car, the solver ends Solved whenever a solution exists, with a board    *)
(* on the winning parent chain from which that car is gone.                *)
(***************************************************************************)
Explored == state_list[idx_state + 1].first

\* The indices (0-based) on the parent chain of entry i.
RECURSIVE ChainOf(_, _)
ChainOf(list, i) == IF i < 0 THEN {} ELSE {i} \cup ChainOf(list, list[i + 1].second)

\* A car other than the goal car lies in the exit row right of the goal car.
GoalBehind(b) ==
    \E c \in CarIds(b) \ {Goal} :
        /\ Horizontal(b, c)
        /\ \E p \in CellsOf(b, c), q \in CellsOf(b, Goal) :
               p[1] = BOARD_EXIT_Y /\ q[1] = BOARD_EXIT_Y /\ q[2] < p[2]

\* C6: the vacated board is passed to registration from the explored
\* entry, and the solution of a board whose goal car lies behind an
\* exit-row car goes through a vacated board.
C6_FullExit ==
    /\ (pc = "move" /\ dir = 3 /\ y = BOARD_EXIT_Y /\ x = BOARD_SIZE - 1) =>
          \A c \in CarIds(Explored) :
              CanExit(Explored, c) =>
                  /\ last.board = Vacated(Explored, c)
                  /\ last.from = idx_state
                  /\ Vacated(Explored, c) \in states_in_list
    /\ (pc = "loop" /\ idx_state >= 1) =>
          \A c \in CarIds(state_list[idx_state].first) :
              CanExit(state_list[idx_state].first, c) =>
                  Vacated(state_list[idx_state].first, c) \in states_in_list
    /\ (Terminated /\ GoalBehind(initial_board) /\ LeastMoves(initial_board) # -1) =>
          /\ pc = "solved"
          /\ \E i \in ChainOf(state_list, Len(state_list) - 1) :
                /\ state_list[i + 1].second >= 0
                /\ \E c \in CarIds(state_list[state_list[i + 1].second + 1].first) \ {Goal} :
                      /\ CanExit(state_list[state_list[i + 1].second + 1].first, c)
                      /\ state_list[i + 1].first =
                            Vacated(state_list[state_list[i + 1].second + 1].first, c)

\* The solver ended Solved from a board whose goal car lay behind another
\* car of the exit row, and a third car was on the board.
C6_Witness ==
    /\ pc = "solved"
    /\ GoalBehind(initial_board)
    /\ Cardinality(CarIds(initial_board)) = 3

(***************************************************************************)
(* C7. Round trip of the path reconstruction: the boards printed start     *)
(* with the initial board and end with the winning board, the last entry   *)
(* of the list; each is drawn against the next one printed, and each is    *)
(* got from the one before it by one legal move.                           *)
(***************************************************************************)
C7_RoundTrip ==
    pc = "solved" =>
        /\ Len(printed) >= 1
        /\ printed[1].cur = initial_board
        /\ printed[Len(printed)].cur = state_list[Len(state_list)].first
        /\ Winning(printed[Len(printed)].cur)
        /\ printed[Len(printed)].next = None
        /\ \A k \in 1 .. (Len(printed) - 1) :
              /\ printed[k].next = printed[k + 1].cur
              /\ printed[k + 1].cur \in LegalMoves(printed[k].cur)

\* The same, set aside the initial boards whose goal car is already in the
\* last column of the exit row.
C7_RoundTripUnlessAlreadyWon == AlreadyWon \/ C7_RoundTrip

(***************************************************************************)
(* C8. Step numbering.                                                     *)
(***************************************************************************)
\* C8 as stated: as many numbered steps are printed as the solution has
\* moves.
C8_StepsAreMoves ==
    pc = "solved" => Len(printed) = ChainMoves(state_list, Len(state_list) - 1)

\* C8 amended: the steps are numbered 1, 2, ... in the order printed, and
\* one step is printed for every board of the parent chain of the last
\* entry of the list, that is one more than the chain has moves: step k
\* shows the board before the k-th move, drawn against the board after
\* it, and the last step shows the last board, drawn against nothing.
C8_StepsAreBoards ==
    pc = "solved" =>
        /\ Len(printed) = ChainMoves(state_list, Len(state_list) - 1) + 1
        /\ \A k \in 1 .. Len(printed) : printed[k].step = k
        /\ printed[1].cur = state_list[1].first
        /\ printed[Len(printed)].cur = state_list[Len(state_list)].first
        /\ printed[Len(printed)].next = None
        /\ \A k \in 1 .. (Len(printed) - 1) :
              /\ printed[k].next = printed[k + 1].cur
              /\ \E i \in ChainOf(state_list, Len(state_list) - 1) :
                    /\ state_list[i + 1].first = printed[k + 1].cur
                    /\ state_list[i + 1].second >= 0
                    /\ state_list[state_list[i + 1].second + 1].first = printed[k].cur

\* A solution of one move (the exit slide alone) was printed as two steps.
C8_Witness ==
    /\ pc = "solved"
    /\ ChainMoves(state_list, Len(state_list) - 1) = 1
    /\ Len(printed) = 2

(***************************************************************************)
(* C9. Determinism.  The run is compared with a search written as a        *)
(* function of the initial board alone: the boards are explored in the     *)
(* order of the list; the candidates of a board are taken by empty cell,   *)
(* row by row and column by column, and at each cell from the car to the   *)
(* right, the car to the left, the car below and the car above, in that    *)
(* order; a candidate not yet in the list is appended with the explored    *)
(* index as origin; the search stops at the first candidate that brings    *)
(* the goal car into the last column of the exit row.                      *)
(***************************************************************************)
NoCandidate == [kind |-> "none", board |-> None]

\* The neighbour of cell (yy, xx) that the d-th candidate of the cell moves
\* and the step it makes.
RefNeighbour(yy, xx, d) ==
    CASE d = 1 -> [y |-> yy, x |-> xx + 1, ey |-> 0, ex |-> -1]
      [] d = 2 -> [y |-> yy, x |-> xx - 1, ey |-> 0, ex |-> 1]
      [] d = 3 -> [y |-> yy + 1, x |-> xx, ey |-> -1, ex |-> 0]
      [] d = 4 -> [y |-> yy - 1, x |-> xx, ey |-> 1, ex |-> 0]

\* The k-th candidate of board b, k = 1 .. 4 * BOARD_SIZE * BOARD_SIZE.
RefCandidate(b, k) ==
    LET yy == ((k - 1) \div 4) \div BOARD_SIZE
        xx == ((k - 1) \div 4) % BOARD_SIZE
        n  == RefNeighbour(yy, xx, ((k - 1) % 4) + 1)
    IN  IF b[yy][xx] # Space \/ ~InBounds(n.y, n.x) THEN NoCandidate
        ELSE LET c == b[n.y][n.x]
             IN  IF c = Space \/ ~CanShift(b, c, n.ey, n.ex) THEN NoCandidate
                 ELSE IF n.ex = 1 /\ yy = BOARD_EXIT_Y /\ xx = BOARD_SIZE - 1
                 THEN IF c = Goal
                      THEN [kind |-> "win", board |-> Shifted(b, c, n.ey, n.ex)]
                      ELSE [kind |-> "add", board |-> Vacated(b, c)]
                 ELSE [kind |-> "add", board |-> Shifted(b, c, n.ey, n.ex)]

IsCandidate(c) == c.kind # "none"

RefCandidates(b) ==
    SelectSeq([k \in 1 .. (4 * BOARD_SIZE * BOARD_SIZE) |-> RefCandidate(b, k)], IsCandidate)

RefAdd(list, b, from) ==
    IF \E i \in 1 .. Len(list) : list[i].first = b THEN list
    ELSE Append(list, [first |-> b, second |-> from])

\* The candidates cs[k..] of entry idx registered in order, up to a win.
RECURSIVE RefRegister(_, _, _, _)
RefRegister(list, cs, k, idx) ==
    IF k > Len(cs) THEN [list |-> list, won |-> FALSE]
    ELSE IF cs[k].kind = "win" THEN [list |-> RefAdd(list, cs[k].board, idx), won |-> TRUE]
    ELSE RefRegister(RefAdd(list, cs[k].board, idx), cs, k + 1, idx)

RECURSIVE RefSearch(_, _)
RefSearch(list, idx) ==
    IF idx >= Len(list) THEN [list |-> list, outcome |-> "exhausted"]
    ELSE LET r == RefRegister(list, RefCandidates(list[idx + 1].first), 1, idx)
         IN  IF r.won THEN [list |-> r.list, outcome |-> "solved"]
             ELSE RefSearch(r.list, idx + 1)

RefRun(root) == RefSearch(<<[first |-> root, second |-> -1]>>, 0)

\* The boards of the parent chain of entry i, the root first.
RECURSIVE RefChain(_, _)
RefChain(list, i) ==
    IF i < 0 THEN << >> ELSE Append(RefChain(list, list[i + 1].second), list[i + 1].first)

\* C9: the list, the outcome, the status and the boards printed are those
\* of the reference search, a function of the initial board.
C9_Determinism ==
    Terminated =>
        LET r == RefRun(initial_board)
        IN  /\ state_list = r.list
            /\ pc = r.outcome
            /\ status = IF r.outcome = "solved" THEN 0 ELSE 1
            /\ [k \in 1 .. Len(printed) |-> printed[k].cur] =
                   IF r.outcome = "solved" THEN RefChain(r.list, Len(r.list) - 1) ELSE << >>

\* A search ended in which a board got candidates from both sides of one
\* empty cell: a car right of it and a car left of it were both registered
\* from the same explored entry.
C9_Witness ==
    /\ Terminated
    /\ \E i, j \in 1 .. Len(state_list) :
          /\ j = i + 1
          /\ state_list[i].second = state_list[j].second
          /\ state_list[i].second >= 0
          /\ \E yy \in Coord, xx \in 1 .. (BOARD_SIZE - 2) :
                LET b == state_list[state_list[i].second + 1].first
                IN  /\ b[yy][xx] = Space
                    /\ state_list[i].first[yy][xx] = b[yy][xx + 1]
                    /\ state_list[j].first[yy][xx] = b[yy][xx - 1]
                    /\ b[yy][xx + 1] # Space
                    /\ b[yy][xx - 1] # Space

(***************************************************************************)
(* C10. The registration of the winning board always succeeds: when        *)
(* CheckMove has slid the goal car into the last column of the exit row,   *)
(* CheckAddState has added that board, so that the last entry of the list  *)
(* is the winning board and its origin is the entry being explored.        *)
(***************************************************************************)
C10_WinRegistered ==
    pc = "solved" =>
        /\ Winning(last.board)
        /\ last.added
        /\ state_list[Len(state_list)].first = last.board
        /\ state_list[Len(state_list)].second = idx_state

\* The same, set aside the initial boards whose goal car is already in the
\* last column of the exit row.
C10_WinRegisteredUnlessAlreadyWon == AlreadyWon \/ C10_WinRegistered

(***************************************************************************)
(* C11.  Immediate stop on goal.                                           *)
(***************************************************************************)
\* C11: once a CheckMove call has passed a winning board (the goal car in
\* the last column of the exit row) to CheckAddState, the program has
\* ended with the solution: no other call is made, no other entry is
\* taken, and a winning board that the list holds behind the root is its
\* last entry, appended from the entry at the cursor.
C11_StopOnWinning ==
    /\ (last.from >= 0 /\ Winning(last.board)) => pc = "solved"
    /\ \A i \in 2 .. Len(state_list) :
          Winning(state_list[i].first) =>
              /\ pc = "solved"
              /\ i = Len(state_list)
              /\ state_list[i].second = idx_state

\* The same on the initial boards whose goal car is not yet in the last
\* column of the exit row.
C11_StopUnlessAlreadyWon == AlreadyWon \/ C11_StopOnWinning

(***************************************************************************)
(* C12.  The exit-lane alternative for a car other than the goal car.      *)
(***************************************************************************)
\* CheckMove<-1,0> has just returned from the empty last cell of the exit
\* row, where a car other than the goal car lies on the left: the call took
\* the branch of lines 296-311.
ExitCallDone ==
    /\ pc = "move"
    /\ dir = 3
    /\ y = BOARD_EXIT_Y
    /\ x = BOARD_SIZE - 1
    /\ s[y][x - 1] \notin {Space, Goal}
    /\ s[y][x - 2] = s[y][x - 1]

\* The car of that call, the board with it shifted by one cell into the
\* last column, and the board with it gone.
ExitCar == s[BOARD_EXIT_Y][BOARD_SIZE - 2]
ExitShifted == Shifted(s, ExitCar, 0, 1)
ExitVacated == Vacated(s, ExitCar)

\* C12 as stated: after that call both the one-cell-shifted board and the
\* fully vacated board have been passed to CheckAddState, so both are in
\* the set of known boards.
C12_BothOffered ==
    ExitCallDone =>
        /\ ExitVacated \in states_in_list
        /\ ExitShifted \in states_in_list

\* C12 amended: the call passes the fully vacated board to CheckAddState
\* with the explored entry as its origin, in the place of the
\* one-cell-shifted board: the vacated board is known afterwards, and no
\* entry of the list records the shifted board as a successor of the
\* explored entry.
C12_VacatedInstead ==
    ExitCallDone =>
        /\ last.from = idx_state
        /\ last.board = ExitVacated
        /\ ExitVacated \in states_in_list
        /\ \A i \in 1 .. Len(state_list) :
              state_list[i].second = idx_state => state_list[i].first # ExitShifted
        /\ s = Explored

\* The call registered the vacated board, and the shifted board is unknown.
C12_Witness ==
    /\ ExitCallDone
    /\ last.added
    /\ state_list[Len(state_list)].first = ExitVacated
    /\ ExitShifted \notin states_in_list
    /\ Cardinality(CarIds(s)) >= 2

(***************************************************************************)
(* C13.  Breadth-first order of the list.                                  *)
(***************************************************************************)
\* The move-depth of every entry (0-based index): the length of its origin
\* chain back to the root.
Depths == [i \in 0 .. (Len(state_list) - 1) |-> ChainMoves(state_list, i)]

\* C13: at every point of the search the depths are non-decreasing in index
\* order, every entry but the root has an earlier entry as its origin and
\* is one deeper than it, and no entry is more than one deeper than the
\* entry at the cursor; the cursor moves one entry at a time, the entry
\* taken for exploration is the one at the cursor, every shallower entry
\* lies before it (so it was taken earlier), and an entry is appended with
\* the cursor as its origin.  The depths are looked at in the states where
\* the list or the cursor has just changed (an entry was added, or main is
\* at the loop test); every other state has the list and the cursor of the
\* state before it.
C13_BFSOrder ==
    /\ [](LET n == Len(state_list)
              D == Depths
          IN  (last.added \/ pc = "loop") =>
              /\ \A i \in 1 .. (n - 1) :
                    /\ D[i - 1] <= D[i]
                    /\ state_list[i + 1].second \in 0 .. (i - 1)
                    /\ D[i] = D[state_list[i + 1].second] + 1
              /\ n > 0 => D[0] = 0
              /\ idx_state < n => D[n - 1] <= D[idx_state] + 1)
    /\ [][/\ idx_state' \in {idx_state, idx_state + 1}
          /\ (pc = "loop" /\ pc' = "cell") =>
                /\ s' = state_list[idx_state + 1].first
                /\ \A i \in 0 .. (Len(state_list) - 1) :
                      Depths[i] < Depths[idx_state] => i < idx_state
          /\ (Len(state_list') > Len(state_list) /\ pc # "prepare") =>
                state_list'[Len(state_list')].second = idx_state]_vars

\* An entry of depth 3 is being explored while entries of depth 4 are
\* already in the list behind entries of depth 3.
C13_Witness ==
    /\ pc = "move"
    /\ ChainMoves(state_list, idx_state) = 3
    /\ ChainMoves(state_list, Len(state_list) - 1) = 4
    /\ idx_state + 1 < Len(state_list) - 1
    /\ ChainMoves(state_list, idx_state + 1) = 3

(***************************************************************************)
(* C14.  The move generator against the reference.                         *)
(***************************************************************************)
\* The boards that one CheckMove call passed to CheckAddState.
Passed(m) == {m.calls[k] : k \in 1 .. Len(m.calls)}

\* Lines 427-430 at the empty cell (yy, xx) of board b: the four CheckMove
\* calls in order, each on the board the call before it left.  The value:
\* the boards passed to CheckAddState, whether a call ended the program in
\* PrintSolutionAndQuit (lines 290-293; the calls after it are not made),
\* and the board left.
CellCalls(b, yy, xx) ==
    LET m1 == CheckMove(Direction(1)[1], Direction(1)[2], b, xx, yy)
        m2 == CheckMove(Direction(2)[1], Direction(2)[2], m1.s, xx, yy)
        m3 == CheckMove(Direction(3)[1], Direction(3)[2], m2.s, xx, yy)
        m4 == CheckMove(Direction(4)[1], Direction(4)[2], m3.s, xx, yy)
    IN  IF m1.quit THEN [passed |-> Passed(m1), quit |-> TRUE, s |-> m1.s]
        ELSE IF m2.quit
        THEN [passed |-> Passed(m1) \cup Passed(m2), quit |-> TRUE, s |-> m2.s]
        ELSE IF m3.quit
        THEN [passed |-> Passed(m1) \cup Passed(m2) \cup Passed(m3), quit |-> TRUE,
              s |-> m3.s]
        ELSE [passed |-> Passed(m1) \cup Passed(m2) \cup Passed(m3) \cup Passed(m4),
              quit |-> m4.quit, s |-> m4.s]

\* Lines 416-432 for one board, from the cell at position p on (row by
\* row): the boards that the CheckMove calls pass to CheckAddState.  The
\* cells after a call that ended the program are not scanned.
RECURSIVE ScanFrom(_, _)
ScanFrom(b, p) ==
    LET q == NextEmpty(b, p)
    IN  IF q >= BOARD_SIZE * BOARD_SIZE THEN {}
        ELSE LET c == CellCalls(b, q \div BOARD_SIZE, q % BOARD_SIZE)
             IN  IF c.quit THEN c.passed ELSE c.passed \cup ScanFrom(c.s, q + 1)

\* The boards that the scan of board b passes to CheckAddState.
ScanCandidates(b) == ScanFrom(b, 0)

\* The one-cell slides that put a car other than the goal car into the
\* last column of the exit row.
ExitSlides(b) == {Shifted(b, c, 0, 1) : c \in {d \in CarIds(b) : CanExit(b, d)}}

\* The cells where two boards differ.
Differ(a, b) == {p \in Cells : a[p[1]][p[2]] # b[p[1]][p[2]]}

\* A board just taken for exploration: the working copy of line 401 before
\* the scan.
JustTaken == pc = "cell" /\ y = 0 /\ x = 0 /\ idx_state < Len(state_list)

\* C14 as stated: for every board taken for exploration, every one-cell
\* slide of a car along its own axis into an adjacent empty cell is passed
\* to CheckAddState, and every board passed is such a slide or, by the
\* exit-row case, the board with a car gone off the grid.
C14_AllSlides ==
    JustTaken =>
        /\ WellFormed(s)
        /\ Slides(s) \subseteq ScanCandidates(s)
        /\ ScanCandidates(s) \subseteq Slides(s) \cup Exits(s)

\* The goal car can slide into the last column of the exit row: the scan
\* of b ends the program at that cell.
CanWin(b) ==
    /\ b[BOARD_EXIT_Y][BOARD_SIZE - 1] = Space
    /\ b[BOARD_EXIT_Y][BOARD_SIZE - 2] = Goal

\* The cell that a car enters on the way from board b to its slide c.
Entered(b, c) == CHOOSE p \in Differ(c, b) : c[p[1]][p[2]] # Space

\* Cell p is scanned before the last cell of the exit row.
BeforeExitCell(p) ==
    p[1] * BOARD_SIZE + p[2] < BOARD_EXIT_Y * BOARD_SIZE + BOARD_SIZE - 1

\* The moves of the reference: the one-cell slides, with the board of the
\* car gone in the place of the slide of a car other than the goal car
\* into the last column of the exit row.
SlidesOrExits(b) == (Slides(b) \ ExitSlides(b)) \cup Exits(b)

\* C14 amended: for every board taken for exploration, the boards passed to
\* CheckAddState are the one-cell slides of a car of length at least 2
\* along its own axis into an adjacent empty cell, each changing exactly
\* two cells, with two exceptions: where a car other than the goal car
\* would slide into the last column of the exit row, the board with that
\* car gone is passed in the place of the slide; and where the goal car can
\* slide into the last column of the exit row, the scan ends with that
\* slide, so that of the other slides only those into a cell scanned
\* before the last cell of the exit row are passed.
C14_SlidesOrExit ==
    JustTaken =>
        /\ WellFormed(s)
        /\ ScanCandidates(s) =
              IF CanWin(s)
              THEN {c \in SlidesOrExits(s) : Winning(c) \/ BeforeExitCell(Entered(s, c))}
              ELSE SlidesOrExits(s)
        /\ \A c \in ScanCandidates(s) \ Exits(s) : Cardinality(Differ(c, s)) = 2
        /\ \A c \in ScanCandidates(s) : WellFormed(c)

\* A board with a car that can leave, a vertical and a horizontal slide.
C14_Witness ==
    /\ JustTaken
    /\ Exits(s) # {}
    /\ ExitSlides(s) \cap ScanCandidates(s) = {}
    /\ \E c \in CarIds(s) : CanShift(s, c, 1, 0)
    /\ \E c \in CarIds(s) : CanShift(s, c, 0, -1)
    /\ Cardinality(ScanCandidates(s)) >= 4

(***************************************************************************)
(* C15.  Mutate, then undo.                                                *)
(***************************************************************************)
\* C15: every CheckMove call that returns (it did not end the program in
\* PrintSolutionAndQuit) leaves the working board as it was before the
\* call, whether it returned early, made an ordinary slide or took a car
\* other than the goal car off the board; between the calls the working
\* board is the board of the entry being explored; and no step changes
\* the board or the origin of an entry that is in the list.
C15_MutateThenUndo ==
    /\ []((pc \in {"cell", "move"} /\ idx_state < Len(state_list)) =>
             s = state_list[idx_state + 1].first)
    /\ [][/\ (pc = "move" /\ pc' \in {"move", "cell"}) => s' = s
          /\ \A i \in 1 .. Len(state_list) :
                /\ i <= Len(state_list')
                /\ state_list'[i] = state_list[i]]_vars

\* A CheckMove call has passed a changed board to CheckAddState, which
\* added it, and has returned with the working board restored.
C15_Witness ==
    /\ pc = "move"
    /\ last.from = idx_state
    /\ last.added
    /\ last.board # s
    /\ LastEntry.first = last.board
    /\ s = Explored
    /\ idx_state >= 2

(***************************************************************************)
(* C16.  Registering a known board changes nothing.                        *)
(***************************************************************************)
\* The step makes a CheckAddState call: the one of the preparation or the
\* one of a CheckMove call that got as far as a slide.
CallsCheckAddState == pc \in {"prepare", "move"} /\ last'.from >= -1

\* For every entry of the list that was taken for exploration (0-based
\* index), the boards that its scan passes to CheckAddState.
ScansOfList ==
    [o \in {q \in 0 .. (Len(state_list) - 1) : q <= idx_state} |->
        ScanCandidates(state_list[o + 1].first)]

\* The origin that the list records for every known board.
OriginOf ==
    [b \in states_in_list |->
        state_list[CHOOSE i \in 1 .. Len(state_list) : state_list[i].first = b].second]

\* C16: a CheckAddState call with a board that the set holds leaves the
\* list (boards and origins) and the set as they are and reports no
\* addition, while a call with a new board appends it; so, when the search
\* has ended, the origin of every entry but the root is the first entry of
\* the list whose scan produces its board: the scan of the origin passes
\* the board, and every board that the scan of an entry passes is known
\* with an origin that is not later than that entry.
C16_DuplicateNoOp ==
    /\ [](Terminated =>
             LET scans == ScansOfList
                 origin == OriginOf
             IN  /\ \A i \in 2 .. Len(state_list) :
                        /\ state_list[i].second \in DOMAIN scans
                        /\ state_list[i].first \in scans[state_list[i].second]
                 /\ \A q \in DOMAIN scans : \A c \in scans[q] :
                        /\ c \in states_in_list
                        /\ origin[c] <= q)
    /\ [][CallsCheckAddState =>
             IF last'.board \in states_in_list
             THEN /\ state_list' = state_list
                  /\ states_in_list' = states_in_list
                  /\ ~last'.added
             ELSE /\ state_list' = Append(state_list, [first |-> last'.board,
                                                       second |-> last'.from])
                  /\ states_in_list' = states_in_list \cup {last'.board}
                  /\ last'.added]_vars

\* A board was passed to CheckAddState again, from a later entry than the
\* one recorded as its origin.
C16_Witness ==
    /\ last.from >= 1
    /\ ~last.added
    /\ \E i \in 2 .. Len(state_list) :
          /\ state_list[i].first = last.board
          /\ state_list[i].second < last.from
          /\ state_list[i].second >= 0

(***************************************************************************)
(* C17.  Bounds safety.                                                    *)
(***************************************************************************)
\* The CheckMove call that comes next.
NextCall == CheckMove(Direction(dir)[1], Direction(dir)[2], s, x, y)

\* C17: in every state of the search no assertion has failed; the scan
\* position is on the board whenever a cell is read at it; and every cell
\* that the CheckMove call to come reads or writes (probe, walk, slide,
\* erase and restore of the exit row, undo) is on the board.
C17_BoundsSafe ==
    /\ pc # "abort"
    /\ pc = "cell" => (y \in 0 .. BOARD_SIZE /\ x \in Coord)
    /\ pc = "move" =>
          /\ InBounds(y, x)
          /\ s[y][x] = Space
          /\ \A q \in NextCall.acc : InBounds(q[1], q[2])

\* The call to come walks a car of four cells up to the edge of the board,
\* where the test of txty_on_board ends the walk.
C17_Witness ==
    /\ pc = "move"
    /\ dir = 4
    /\ Cardinality(NextCall.acc) = 5
    /\ \E q \in NextCall.acc : q[1] = 0
    /\ Len(NextCall.calls) = 1

(***************************************************************************)
(* C18.  The origin indices are well-founded.                              *)
(***************************************************************************)
\* The origin of the entry at index i (0-based).
Origin(i) == state_list[i + 1].second

\* C18: entry 0 is the initial board and has origin -1; every other entry
\* has an origin that is at least 0, smaller than its own index and not
\* larger than the cursor, and the origins do not decrease along the list;
\* an entry is appended with the entry being explored as its origin; and
\* the backtrace from any entry stays inside the list and visits at most
\* index + 1 entries (looked at whenever an entry was added).
C18_OriginsWellFounded ==
    /\ [](LET n == Len(state_list)
          IN  /\ n > 0 => state_list[1] = [first |-> initial_board, second |-> -1]
              /\ \A i \in 1 .. (n - 1) :
                    /\ Origin(i) >= 0
                    /\ Origin(i) < i
                    /\ Origin(i) <= idx_state
                    /\ Origin(i - 1) <= Origin(i)
              /\ last.added =>
                    \A i \in 0 .. (n - 1) :
                        /\ ChainOf(state_list, i) \subseteq 0 .. i
                        /\ 0 \in ChainOf(state_list, i)
                        /\ Len(PrintSolutionRecursive(state_list, i, None))
                              = Cardinality(ChainOf(state_list, i)))
    /\ [][Len(state_list') > Len(state_list) =>
             state_list'[Len(state_list')].second =
                 IF pc = "prepare" THEN -1 ELSE idx_state]_vars

\* Several entries share an origin, the origins have grown along the list,
\* and the cursor is past the last origin recorded.
C18_Witness ==
    /\ Len(state_list) >= 6
    /\ \E i \in 1 .. (Len(state_list) - 2) : Origin(i) = Origin(i + 1)
    /\ Origin(Len(state_list) - 1) >= 3
    /\ idx_state > Origin(Len(state_list) - 1)
    /\ pc = "move"

====
